---- MODULE Spec2Model ----
(***************************************************************************)
(* Model of src/src/utils/render.js: RenderUtility.renderFromField routing *)
(* a check field to renderMultiRoll and a damage field to                  *)
(* renderDamageRoll.                                                       *)
(*                                                                         *)
(* A JavaScript string is a sequence of tokens (<<>> is the empty string), *)
(* so concatenation is \o and "the text occurs in the output" is token     *)
(* membership.  A placement setting is a JavaScript value with its type    *)
(* kept, because the code compares placements with 0, with "0", with ===   *)
(* and with ==.                                                            *)
(***************************************************************************)
EXTENDS Integers, Sequences, FiniteSets, TLC

VARIABLES
    fieldType,      \* field[0]: which renderer renderFromField routes to
    pc,             \* position of the render call
    results,        \* d20Rolls.results: the DieResult objects (shared, mutated)
    halflingLucky,  \* roll.options.halflingLucky
    d20Icons,       \* setting D20_ICONS_ENABLED
    bonusTotal,     \* bonusRoll?.total ?? 0
    entries,        \* renderMultiRoll's entries
    requested,      \* tooltip requests issued (getTooltip called)
    completed,      \* tooltip requests whose promise has resolved
    damageType, versatile, context, baseRoll, critRoll,   \* renderData of a damage field
    settings,       \* the five settings renderDamageRoll reads
    pushedTitle,    \* renderDamageRoll's local pushedTitle
    fragments,      \* labels before the join of lines 222-224
    labels          \* labels after the join: damagetop, damagemid, damagebottom

vars == << fieldType, pc, results, halflingLucky, d20Icons, bonusTotal, entries,
           requested, completed, damageType, versatile, context, baseRoll,
           critRoll, settings, pushedTitle, fragments, labels >>

(***************************************************************************)
(* Bounds of the model.                                                    *)
(***************************************************************************)
MaxResults == 2

FaceValues == {1, 15}
BonusTotals == {0, 5}

(***************************************************************************)
(* renderMultiRoll                                                         *)
(***************************************************************************)
\* d20Result of an entry when the icon setting is off (null).
NoD20Result == 0

DieResult == [result : FaceValues, rerolled : BOOLEAN, discarded : BOOLEAN,
              active : BOOLEAN]

RECURSIVE SumSeq(_)
SumSeq(s) == IF s = <<>> THEN 0 ELSE Head(s) + SumSeq(Tail(s))

\* Mutant: the option is not consulted.
LuckyTriggeredNoOption(lucky, rs, i) == rs[i].result = 1

\* Mutant: a natural 1 in the last position is silently left alone.
LuckyTriggeredTruncating(lucky, rs, i) == lucky /\ rs[i].result = 1 /\ i < Len(rs)

\* Line 124: roll.options.halflingLucky && d20Rolls.results[i].result === 1
LuckyTriggered(lucky, rs, i) == lucky /\ rs[i].result = 1

\* Mutant: the flag the caller passed is kept.
SetActiveKeep(r) == r

\* Line 130: r.active = !r.rerolled ?? true  (!x is never nullish)
SetActive(r) == [r EXCEPT !.active = ~r.rerolled]

\* Lines 133-134, 138: baseRoll.total of a roll of the one Die term built from
\* tmpResults: the results whose active flag is set are summed (line 120).
DieTotal(tmp) ==
    SumSeq([k \in 1..Len(tmp) |-> IF tmp[k].active THEN tmp[k].result ELSE 0])

\* Mutant: the bonus is dropped.
EntryTotalNoBonus(base, bonus) == base

\* Line 138: baseRoll.total + (bonusRoll?.total ?? 0)
EntryTotal(base, bonus) == base + bonus

\* Line 139: tmpResults.some(r => r.discarded) ? true : undefined
Ignored(tmp) ==
    IF \E k \in 1..Len(tmp) : tmp[k].discarded THEN "true" ELSE "undefined"

\* Mutant: the setting is not consulted.
D20ResultAlways(icons, rs, i) == rs[i].result

\* Line 142, with i as it is after the increment of line 125.
D20Result(icons, rs, i) == IF icons THEN rs[i].result ELSE NoD20Result

\* Lines 119-144: the loop from index i on (1-based), acc the entries so far.
\* An entry keeps tmpResults as the indices of the results it was built from.
\* fault: results[i] is undefined after the increment, and line 130 throws
\* on it after the first element of tmpResults has been given its flag.
RECURSIVE MultiRollLoop(_, _, _, _, _, _)
MultiRollLoop(i, rs, acc, lucky, icons, bonus) ==
    IF i > Len(rs)
    THEN [entries |-> acc, results |-> rs, fault |-> FALSE]
    ELSE LET j   == IF LuckyTriggered(lucky, rs, i) THEN i + 1 ELSE i
             idx == IF j = i THEN <<i>> ELSE <<i, j>>
         IN IF j > Len(rs)
            THEN [entries |-> acc,
                  results |-> [rs EXCEPT ![i] = SetActive(rs[i])],
                  fault   |-> TRUE]
            ELSE LET rs2 == [k \in 1..Len(rs) |->
                                IF k = i \/ k = j THEN SetActive(rs[k]) ELSE rs[k]]
                     tmp == [k \in 1..Len(idx) |-> rs2[idx[k]]]
                     e   == [tmpResults |-> idx,
                             total      |-> EntryTotal(DieTotal(tmp), bonus),
                             ignored    |-> Ignored(tmp),
                             d20Result  |-> D20Result(icons, rs2, j)]
                 IN MultiRollLoop(j + 1, rs2, Append(acc, e), lucky, icons, bonus)

\* Tooltip requests are named by the roll they are for.
EntryTooltip(k) == <<"entry", k>>
BonusTooltip == <<"bonus", 0>>
BaseTooltip == <<"base", 0>>
CritTooltip == <<"crit", 0>>

\* Mutant: the bonus tooltip is requested together with the entries'.
EntryRequestsWithBonus(es) == {EntryTooltip(k) : k \in 1..Len(es)} \cup {BonusTooltip}

\* Line 147: entries.map(e => e.roll.getTooltip())
EntryRequests(es) == {EntryTooltip(k) : k \in 1..Len(es)}

(***************************************************************************)
(* renderDamageRoll                                                        *)
(***************************************************************************)
\* The slots of labels (lines 186-188) and the "do not display" placement.
SlotIds == 1..3
Placements == 0..3

\* A setting value: the number n or the string of its digits.
JsValue(t) == [type : {t}, n : Placements]

\* a === b
StrictEq(a, b) == a.type = b.type /\ a.n = b.n

\* a == b: a number and a numeric string are equal when the numbers are.
LooseEq(a, b) == a.n = b.n

\* a !== 0
NotNumberZero(a) == ~(a.type = "number" /\ a.n = 0)

\* a !== "0"
NotStringZero(a) == ~(a.type = "string" /\ a.n = 0)

\* labels[p] is an array only for the keys 1, 2 and 3.
HasSlot(p) == p.n \in SlotIds

\* CONFIG.DND5E.healingTypes[damageType] (<<>> for undefined)
HealingTypes(t) == IF t = "healing" THEN <<"Healing">> ELSE <<>>

\* CONFIG.DND5E.damageTypes[damageType] (<<>> for undefined)
DamageTypes(t) == IF t = "fire" THEN <<"Fire">> ELSE <<>>

\* Lines 191-201.
DamagePrefix(t, ver) ==
    IF HealingTypes(t) # <<>> THEN HealingTypes(t)
    ELSE IF DamageTypes(t) # <<>>
         THEN <<"Damage">> \o (IF ver THEN <<" [", "Versatile", "]">> ELSE <<>>)
         ELSE IF t = "other" THEN <<"Other">> ELSE <<>>

\* Line 203.
PlacesTitle(s, ctx) ==
    /\ NotNumberZero(s.titlePlacement)
    /\ ~(s.replaceTitle /\ ctx # <<>> /\ LooseEq(s.titlePlacement, s.contextPlacement))

\* Mutant: the context is never merged into the title.
MergesContextNever(s, pushed) == FALSE

\* Line 209.
MergesContext(s, pushed) == StrictEq(s.contextPlacement, s.titlePlacement) /\ pushed

\* Mutant: the separating blank is written also after an empty title.
MergedFragmentBlank(titleTmp, ctx) == titleTmp \o <<" ">> \o <<"(">> \o ctx \o <<")">>

\* Line 211.
MergedFragment(titleTmp, ctx) ==
    (IF titleTmp # <<>> THEN titleTmp \o <<" ">> ELSE <<>>) \o <<"(">> \o ctx \o <<")">>

\* Line 212.
PushesContext(s) == NotStringZero(s.contextPlacement)

\* Mutant: the damage type goes where the title goes.
TypeSlotOfTitle(s) == s.titlePlacement

\* Line 219: the slot the damage type is pushed to.
TypeSlot(s) == s.typePlacement

\* Line 218.
PushesType(s, ctx, damageString) ==
    /\ NotStringZero(s.typePlacement)
    /\ Len(damageString) > 0
    /\ ~(s.replaceDamage /\ ctx # <<>> /\ LooseEq(s.typePlacement, s.contextPlacement))

\* Line 223: Array.prototype.join(" - ")
RECURSIVE Join(_)
Join(frags) ==
    IF frags = <<>> THEN <<>>
    ELSE IF Len(frags) = 1 THEN frags[1]
         ELSE frags[1] \o <<" - ">> \o Join(Tail(frags))

NoLabels == [p \in SlotIds |-> <<>>]

\* array.push(x) on labels[p]
Push(l, p, x) == [l EXCEPT ![p.n] = Append(@, x)]

\* Lines 185-220: the fragment lists before the join.  fault: a push on
\* labels[p] for a p that is no key of labels throws.
DamageFragments(t, ver, ctx, s) ==
    LET prefix == DamagePrefix(t, ver)
        pushed == PlacesTitle(s, ctx)
        f1     == pushed /\ ~HasSlot(s.titlePlacement)
        l1     == IF pushed THEN Push(NoLabels, s.titlePlacement, prefix) ELSE NoLabels
        merges == ctx # <<>> /\ MergesContext(s, pushed)
        pushC  == ctx # <<>> /\ ~merges /\ PushesContext(s)
        f2     == pushC /\ ~HasSlot(s.contextPlacement)
        l2     == IF merges
                  THEN [l1 EXCEPT ![s.contextPlacement.n][1] = MergedFragment(@, ctx)]
                  ELSE IF pushC THEN Push(l1, s.contextPlacement, ctx) ELSE l1
        dmgStr == DamageTypes(t)
        pushT  == PushesType(s, ctx, dmgStr)
        f3     == pushT /\ ~HasSlot(TypeSlot(s))
        l3     == IF pushT THEN Push(l2, TypeSlot(s), dmgStr) ELSE l2
    IN IF f1 THEN [fault |-> TRUE, pushedTitle |-> FALSE, fragments |-> NoLabels]
       ELSE IF f2 THEN [fault |-> TRUE, pushedTitle |-> pushed, fragments |-> l1]
       ELSE IF f3 THEN [fault |-> TRUE, pushedTitle |-> pushed, fragments |-> l2]
       ELSE [fault |-> FALSE, pushedTitle |-> pushed, fragments |-> l3]

\* Line 175: baseRoll?.terms.length === 0 && critRoll?.terms.length === 0
NoContent(base, crit) == base = "empty" /\ crit = "empty"

\* Lines 227-230: baseRoll?.getTooltip(), critRoll?.getTooltip()
DamageRequests(base, crit) ==
    (IF base # "absent" THEN {BaseTooltip} ELSE {}) \cup
    (IF crit # "absent" THEN {CritTooltip} ELSE {})

(***************************************************************************)
(* The state machine.                                                      *)
(***************************************************************************)
RollStates == {"absent", "empty", "terms"}

\* damageType with versatile: only a weapon's damage roll is versatile.
TypedDamage == {<<"fire", FALSE>>, <<"fire", TRUE>>, <<"healing", FALSE>>,
                <<"other", FALSE>>, <<"none", FALSE>>}

Contexts == {<<>>, <<"Sneak Attack">>}

\* The settings store keeps the three placement settings in one representation.
SettingsValues ==
    UNION {[titlePlacement : JsValue(t), typePlacement : JsValue(t),
            contextPlacement : JsValue(t), replaceTitle : BOOLEAN,
            replaceDamage : BOOLEAN] : t \in {"number", "string"}}

ResultSeqs == UNION {[1..n -> DieResult] : n \in 1..MaxResults}

NoSettings == [titlePlacement |-> [type |-> "number", n |-> 0],
               typePlacement |-> [type |-> "number", n |-> 0],
               contextPlacement |-> [type |-> "number", n |-> 0],
               replaceTitle |-> FALSE, replaceDamage |-> FALSE]

InitCommon ==
    /\ pc = "start"
    /\ entries = <<>>
    /\ requested = {}
    /\ completed = {}
    /\ pushedTitle = FALSE
    /\ fragments = NoLabels
    /\ labels = NoLabels

\* A check field: the roll and the icon setting are the inputs.
InitCheck ==
    /\ fieldType = "check"
    /\ results \in ResultSeqs
    /\ halflingLucky \in BOOLEAN
    /\ d20Icons \in BOOLEAN
    /\ bonusTotal \in BonusTotals
    /\ damageType = "none" /\ versatile = FALSE /\ context = <<>>
    /\ baseRoll = "absent" /\ critRoll = "absent"
    /\ settings = NoSettings

\* A damage field: the damage data and the placement settings are the inputs.
InitDamage ==
    /\ fieldType = "damage"
    /\ results = <<>> /\ halflingLucky = FALSE /\ d20Icons = FALSE /\ bonusTotal = 0
    /\ \E td \in TypedDamage : damageType = td[1] /\ versatile = td[2]
    /\ context \in Contexts
    /\ baseRoll \in RollStates
    /\ critRoll \in RollStates
    /\ settings \in SettingsValues

Init == InitCommon /\ (InitCheck \/ InitDamage)

\* Lines 110-147 up to the first await: the loop, then the entries' tooltip
\* requests.  A throw rejects the call: nothing is rendered.
RenderMultiRoll ==
    /\ fieldType = "check" /\ pc = "start"
    /\ LET r == MultiRollLoop(1, results, <<>>, halflingLucky, d20Icons, bonusTotal)
       IN /\ results' = r.results
          /\ IF r.fault
             THEN pc' = "failed" /\ entries' = <<>> /\ requested' = requested
             ELSE /\ pc' = "awaitEntries"
                  /\ entries' = r.entries
                  /\ requested' = requested \cup EntryRequests(r.entries)
    /\ UNCHANGED << fieldType, halflingLucky, d20Icons, bonusTotal, completed,
                    damageType, versatile, context, baseRoll, critRoll, settings,
                    pushedTitle, fragments, labels >>

\* Line 148: Promise.all has resolved; bonusRoll?.getTooltip() is called
\* (bonusRoll is never null: line 116 tests an array, which is truthy).
RequestBonusTooltip ==
    /\ pc = "awaitEntries"
    /\ EntryRequests(entries) \subseteq completed
    /\ requested' = requested \cup {BonusTooltip}
    /\ pc' = "awaitBonus"
    /\ UNCHANGED << fieldType, results, halflingLucky, d20Icons, bonusTotal, entries,
                    completed, damageType, versatile, context, baseRoll, critRoll,
                    settings, pushedTitle, fragments, labels >>

\* Lines 150-157: the data goes to the template renderer.
RenderMultiRollTemplate ==
    /\ pc = "awaitBonus"
    /\ BonusTooltip \in completed
    /\ pc' = "rendered"
    /\ UNCHANGED << fieldType, results, halflingLucky, d20Icons, bonusTotal, entries,
                    requested, completed, damageType, versatile, context, baseRoll,
                    critRoll, settings, pushedTitle, fragments, labels >>

\* Lines 171-230 up to the await: the early return, the labels, the join and
\* the tooltip requests.
RenderDamageRoll ==
    /\ fieldType = "damage" /\ pc = "start"
    /\ IF NoContent(baseRoll, critRoll)
       THEN pc' = "noOutput" /\ UNCHANGED << pushedTitle, fragments, labels, requested >>
       ELSE LET d == DamageFragments(damageType, versatile, context, settings)
            IN /\ pushedTitle' = d.pushedTitle
               /\ fragments' = d.fragments
               /\ IF d.fault
                  THEN pc' = "failed" /\ UNCHANGED << labels, requested >>
                  ELSE /\ labels' = [p \in SlotIds |-> Join(d.fragments[p])]
                       /\ requested' = requested \cup DamageRequests(baseRoll, critRoll)
                       /\ pc' = "awaitTooltips"
    /\ UNCHANGED << fieldType, results, halflingLucky, d20Icons, bonusTotal, entries,
                    completed, damageType, versatile, context, baseRoll, critRoll,
                    settings >>

\* Lines 232-244: the data goes to the template renderer; line 242 reads
\* critRoll.formula when baseRoll is absent, which throws without a critRoll.
RenderDamageTemplate ==
    /\ pc = "awaitTooltips"
    /\ requested \subseteq completed
    /\ pc' = IF baseRoll = "absent" /\ critRoll = "absent" THEN "failed" ELSE "rendered"
    /\ UNCHANGED << fieldType, results, halflingLucky, d20Icons, bonusTotal, entries,
                    requested, completed, damageType, versatile, context, baseRoll,
                    critRoll, settings, pushedTitle, fragments, labels >>

\* The tooltip service resolves one outstanding getTooltip() promise.
TooltipComplete ==
    /\ \E t \in requested \ completed : completed' = completed \cup {t}
    /\ UNCHANGED << fieldType, pc, results, halflingLucky, d20Icons, bonusTotal,
                    entries, requested, damageType, versatile, context, baseRoll,
                    critRoll, settings, pushedTitle, fragments, labels >>

Next ==
    \/ RenderMultiRoll
    \/ RequestBonusTooltip
    \/ RenderMultiRollTemplate
    \/ RenderDamageRoll
    \/ RenderDamageTemplate
    \/ TooltipComplete

Spec == Init /\ [][Next]_vars

(***************************************************************************)
(* Properties of renderMultiRoll.                                          *)
(***************************************************************************)
\* The loop of renderMultiRoll has run to its end without throwing.
MultiLoopDone == fieldType = "check" /\ pc \in {"awaitEntries", "awaitBonus", "rendered"}

\* The face value of a result if it is not flagged rerolled, else nothing.
Counted(r) == IF r.rerolled THEN 0 ELSE r.result

\* The number of value-1 results the sequence ends with.
RECURSIVE TrailingOnes(_)
TrailingOnes(rs) ==
    IF rs = <<>> \/ rs[Len(rs)].result # 1 THEN 0
    ELSE 1 + TrailingOnes(SubSeq(rs, 1, Len(rs) - 1))

\* C1: without the lucky-reroll option the call does not fail, there are as
\* many entries as results, and entry k is built from exactly result k.
C1_OneEntryPerResult ==
    (fieldType = "check" /\ pc # "start" /\ ~halflingLucky) =>
        /\ pc # "failed"
        /\ Len(entries) = Len(results)
        /\ \A k \in 1..Len(entries) : entries[k].tmpResults = <<k>>

C1_Witness ==
    /\ fieldType = "check" /\ pc = "rendered" /\ ~halflingLucky
    /\ Len(results) = 2 /\ results[1].result = 1 /\ Len(entries) = 2

\* C2 as stated: with the lucky-reroll option, an entry started by a result
\* of value 1 consumes that result and the next one, and its total is the
\* companion's face value plus the bonus total whatever the flags of the two
\* results are; it is not ignored when neither result is discarded.
C2_TotalIsCompanionOnly ==
    (MultiLoopDone /\ halflingLucky) =>
        \A k \in 1..Len(entries) :
            LET e == entries[k]
                first == e.tmpResults[1]
            IN results[first].result = 1 =>
                /\ e.tmpResults = <<first, first + 1>>
                /\ e.total = results[first + 1].result + bonusTotal
                /\ (~results[first].discarded /\ ~results[first + 1].discarded)
                       => e.ignored # "true"

\* C2 amended: such an entry consumes exactly the 1 and its companion, and
\* its total is the bonus total plus the face values of those of the two that
\* are not flagged rerolled; that is the companion's face value plus the
\* bonus when the 1 is flagged rerolled and the companion is not.
C2_TotalIsNotRerolledOnes ==
    (MultiLoopDone /\ halflingLucky) =>
        \A k \in 1..Len(entries) :
            LET e == entries[k]
                first == e.tmpResults[1]
            IN results[first].result = 1 =>
                /\ e.tmpResults = <<first, first + 1>>
                /\ e.total = Counted(results[first]) + Counted(results[first + 1])
                                 + bonusTotal
                /\ (results[first].rerolled /\ ~results[first + 1].rerolled)
                       => e.total = results[first + 1].result + bonusTotal
                /\ (~results[first].discarded /\ ~results[first + 1].discarded)
                       => e.ignored # "true"

C2_Witness ==
    /\ fieldType = "check" /\ pc = "rendered" /\ halflingLucky /\ bonusTotal = 0
    /\ Len(results) = 2
    /\ results[1].result = 1 /\ results[1].rerolled
    /\ results[2].result = 15 /\ ~results[2].rerolled
    /\ ~results[1].discarded /\ ~results[2].discarded
    /\ Len(entries) = 1 /\ entries[1].total = 15 /\ entries[1].ignored = "undefined"

\* C3: every entry's total is the sum of the face values of its contributing
\* results that are active, active being not rerolled, plus the one bonus
\* total of the call; an inactive result contributes nothing.
C3_TotalIsActiveSumPlusBonus ==
    MultiLoopDone =>
        \A k \in 1..Len(entries) :
            LET idx == entries[k].tmpResults
            IN /\ \A m \in 1..Len(idx) :
                      results[idx[m]].active = ~results[idx[m]].rerolled
               /\ entries[k].total =
                      SumSeq([m \in 1..Len(idx) |-> Counted(results[idx[m]])])
                          + bonusTotal

C3_Witness ==
    /\ fieldType = "check" /\ pc = "rendered" /\ bonusTotal = 5
    /\ Len(entries) = 2
    /\ results[1].rerolled /\ ~results[2].rerolled
    /\ entries[1].total = 5 /\ entries[2].total = 20

\* C8 as stated: with the lucky-reroll option and a last result of value 1
\* the call fails and renders nothing.
C8_LastOneFails ==
    (fieldType = "check" /\ pc # "start" /\ halflingLucky
        /\ results[Len(results)].result = 1) =>
        pc = "failed" /\ entries = <<>>

\* C8 amended: with the lucky-reroll option the call fails exactly when the
\* results end with an odd number of value-1 results, which is when the last
\* one starts an entry instead of being the companion of the 1 before it;
\* a failed call renders nothing and requests no tooltip, and no entry is
\* ever built from a lone result of value 1.
C8_UnpairedLastOneFails ==
    (fieldType = "check" /\ pc # "start" /\ halflingLucky) =>
        /\ (pc = "failed") <=> (TrailingOnes(results) % 2 = 1)
        /\ pc = "failed" => (entries = <<>> /\ requested = {})
        /\ \A k \in 1..Len(entries) :
               Len(entries[k].tmpResults) = 1
                   => results[entries[k].tmpResults[1]].result # 1

C8_Witness ==
    /\ fieldType = "check" /\ pc = "failed" /\ halflingLucky
    /\ Len(results) = 2 /\ results[1].result = 15 /\ results[2].result = 1

\* C9 as stated: with the icon setting on, d20Result is the face value of the
\* result that started the entry; with it off, it is null.
C9_D20ResultIsTrigger ==
    MultiLoopDone =>
        \A k \in 1..Len(entries) :
            entries[k].d20Result =
                IF d20Icons THEN results[entries[k].tmpResults[1]].result
                ELSE NoD20Result

\* C9 amended: with the icon setting on, d20Result is the face value of the
\* last result the entry consumed: the companion's for a lucky reroll of a
\* natural 1; with it off, it is null.
C9_D20ResultIsLastConsumed ==
    MultiLoopDone =>
        \A k \in 1..Len(entries) :
            LET idx == entries[k].tmpResults
            IN entries[k].d20Result =
                   IF d20Icons THEN results[idx[Len(idx)]].result ELSE NoD20Result

C9_Witness ==
    /\ fieldType = "check" /\ pc = "rendered" /\ halflingLucky /\ d20Icons
    /\ Len(entries) = 1 /\ entries[1].tmpResults = <<1, 2>>
    /\ results[1].result = 1 /\ results[2].result = 15
    /\ entries[1].d20Result = 15

(***************************************************************************)
(* Properties of the tooltip requests.                                     *)
(***************************************************************************)
TooltipsOfEntries == {<<"entry", k>> : k \in 1..Len(entries)}

\* Every tooltip the render call asks for in the course of its run.
TooltipsOfCall ==
    IF fieldType = "check" THEN TooltipsOfEntries \cup {<<"bonus", 0>>}
    ELSE {t \in {<<"base", 0>>, <<"crit", 0>>} :
             \/ t[1] = "base" /\ baseRoll # "absent"
             \/ t[1] = "crit" /\ critRoll # "absent"}

Waiting == pc \in {"awaitEntries", "awaitBonus", "awaitTooltips"}

\* C10 as stated: whenever the call waits for a tooltip, every tooltip
\* request of the call has been issued, and the template renderer gets the
\* data only after all of them have completed.
C10_AllIssuedBeforeAnyWait ==
    /\ Waiting => requested = TooltipsOfCall
    /\ pc = "rendered" => (requested = TooltipsOfCall /\ requested \subseteq completed)

\* C10 amended: renderDamageRoll issues the base and the crit request before
\* it waits, and renderMultiRoll issues all entry requests before it waits;
\* but renderMultiRoll requests the bonus tooltip only after every entry
\* tooltip has completed.  The template renderer gets the data only after
\* every request has been issued and has completed.
C10_BonusAfterEntries ==
    /\ pc = "awaitTooltips" => requested = TooltipsOfCall
    /\ pc = "awaitEntries" => requested = TooltipsOfEntries
    /\ <<"bonus", 0>> \in requested => TooltipsOfEntries \subseteq completed
    /\ pc = "rendered" => (requested = TooltipsOfCall /\ requested \subseteq completed)

C10_Witness ==
    /\ pc = "awaitEntries" /\ Len(entries) = 2
    /\ completed = {<<"entry", 2>>}
    /\ <<"bonus", 0>> \notin requested

(***************************************************************************)
(* Properties of renderDamageRoll.                                         *)
(***************************************************************************)
\* renderDamageRoll has computed and joined its labels.
LabelsDone == fieldType = "damage" /\ pc \in {"awaitTooltips", "rendered"}

\* renderDamageRoll has ended or stands at its await.
DamageRan == fieldType = "damage" /\ pc \in {"awaitTooltips", "rendered", "failed"}

\* The text (not empty) occurs in the string.
Occurs(text, str) == text # <<>> /\ \E i \in 1..Len(str) : str[i] = text[1]

TitleText == DamagePrefix(damageType, versatile)
TypeText == IF damageType = "fire" THEN <<"Fire">> ELSE <<>>
Parenthesized(ctx) == <<"(">> \o ctx \o <<")">>

\* C4: a placement of 0 (the number, as the settings are documented) is no
\* fault, the render completes with its three slot strings, and the fragment
\* placed at 0 is in none of them.
C4_ZeroPlacementDrops ==
    (DamageRan /\ (baseRoll # "absent" \/ critRoll # "absent")
        /\ settings.titlePlacement.type = "number"
        /\ (settings.titlePlacement.n = 0 \/ settings.typePlacement.n = 0
               \/ settings.contextPlacement.n = 0)) =>
        /\ pc # "failed"
        /\ \A p \in SlotIds :
               /\ settings.titlePlacement.n = 0 => ~Occurs(TitleText, labels[p])
               /\ settings.typePlacement.n = 0 => ~Occurs(TypeText, labels[p])
               /\ settings.contextPlacement.n = 0 => ~Occurs(context, labels[p])

\* The case of C5: a context, the title placed, both in the same slot.
C5_Case ==
    /\ LabelsDone /\ context # <<>> /\ pushedTitle
    /\ settings.titlePlacement.n = settings.contextPlacement.n
    /\ settings.titlePlacement.n # 0

\* C5 as stated: the slot's first fragment is "<title> (<context>)", and the
\* context is no second fragment of the slot.
C5_MergedIsTitleBlankContext ==
    C5_Case =>
        LET fs == fragments[settings.titlePlacement.n]
        IN /\ fs[1] = TitleText \o <<" ">> \o Parenthesized(context)
           /\ \A k \in 1..Len(fs) : fs[k] # context

\* C5 amended: the slot's first fragment is "<title> (<context>)" when the
\* title prefix is not empty and "(<context>)" when it is empty (a damage type
\* that is neither healing, damage nor other); the context is no second
\* fragment of the slot.
C5_MergedDropsBlankOfEmptyTitle ==
    C5_Case =>
        LET fs == fragments[settings.titlePlacement.n]
        IN /\ TitleText # <<>> => fs[1] = TitleText \o <<" ">> \o Parenthesized(context)
           /\ TitleText = <<>> => fs[1] = Parenthesized(context)
           /\ \A k \in 1..Len(fs) : fs[k] # context
           /\ Len(fs) <= 2

C5_Witness ==
    /\ fieldType = "damage" /\ pc = "rendered" /\ context = <<"Sneak Attack">>
    /\ damageType = "fire" /\ ~versatile /\ pushedTitle
    /\ settings.titlePlacement.n = 2 /\ settings.contextPlacement.n = 2
    /\ fragments[2] = << <<"Damage", " ", "(", "Sneak Attack", ")">>, <<"Fire">> >>
    /\ labels[2] = <<"Damage", " ", "(", "Sneak Attack", ")", " - ", "Fire">>

\* The scenario of C6.
C6_Case ==
    /\ LabelsDone /\ damageType = "fire" /\ ~versatile
    /\ context = <<"Sneak Attack">>
    /\ settings.titlePlacement.n = 1 /\ settings.contextPlacement.n = 1
    /\ ~settings.replaceTitle

\* C6 as stated: slot 1 is "Damage - Sneak Attack".
C6_SlotIsTwoFragments ==
    C6_Case => labels[1] = <<"Damage", " - ", "Sneak Attack">>

\* C6 amended: slot 1 is "Damage (Sneak Attack)", title and context merged
\* into one fragment, followed by " - Fire" when the damage type is placed in
\* slot 1 too and not replaced by the context.
C6_SlotIsMerged ==
    C6_Case =>
        /\ fragments[1][1] = <<"Damage", " ", "(", "Sneak Attack", ")">>
        /\ labels[1] = <<"Damage", " ", "(", "Sneak Attack", ")">> \o
               (IF settings.typePlacement.n = 1 /\ ~settings.replaceDamage
                THEN <<" - ", "Fire">> ELSE <<>>)

C6_Witness ==
    /\ C6_Case /\ pc = "rendered" /\ settings.typePlacement.n = 2
    /\ labels[1] = <<"Damage", " ", "(", "Sneak Attack", ")">>
    /\ labels[2] = <<"Fire">>

\* The case of C7: three distinct placements, none 0, a recognized damage
\* type and a context.
C7_Case ==
    /\ DamageRan /\ (baseRoll # "absent" \/ critRoll # "absent")
    /\ damageType = "fire" /\ context # <<>>
    /\ settings.titlePlacement.n # 0 /\ settings.contextPlacement.n # 0
    /\ settings.typePlacement.n # 0
    /\ settings.titlePlacement.n # settings.contextPlacement.n
    /\ settings.titlePlacement.n # settings.typePlacement.n
    /\ settings.contextPlacement.n # settings.typePlacement.n

\* C7: title, context and damage type are each the one fragment of their own
\* slot, unmerged, and occur in no other slot, whatever the replace flags are.
C7_EachInItsOwnSlot ==
    C7_Case =>
        /\ pc # "failed"
        /\ fragments[settings.titlePlacement.n] = <<TitleText>>
        /\ fragments[settings.contextPlacement.n] = <<context>>
        /\ fragments[settings.typePlacement.n] = <<TypeText>>
        /\ \A p \in SlotIds :
               /\ Occurs(TitleText, labels[p]) <=> p = settings.titlePlacement.n
               /\ Occurs(context, labels[p]) <=> p = settings.contextPlacement.n
               /\ Occurs(TypeText, labels[p]) <=> p = settings.typePlacement.n
               /\ labels[p] = fragments[p][1]

C7_Witness ==
    /\ C7_Case /\ pc = "rendered" /\ versatile
    /\ settings.replaceTitle /\ settings.replaceDamage
    /\ settings.titlePlacement.n = 2 /\ settings.contextPlacement.n = 3
    /\ settings.typePlacement.n = 1
    /\ labels[1] = <<"Fire">> /\ labels[3] = <<"Sneak Attack">>
    /\ labels[2] = <<"Damage", " [", "Versatile", "]">>

====
